---- MODULE Spec2Model ----
(***************************************************************************)
(* Model of package logging (logging.go): a Logger owning one LogWriter    *)
(* per severity level, each with its own io.Writer and template.           *)
(*                                                                         *)
(* A format string is modelled as the sequence of its lexical pieces:      *)
(* literal text, a field action such as ".Level" (the source's             *)
(* {{.Level}}), or an action that is never closed.  A destination's        *)
(* content is the sequence of the byte chunks written to it.               *)
(***************************************************************************)
EXTENDS Integers, Sequences, FiniteSets, TLC

VARIABLES
    logger,     \* the Logger struct, its seven *LogWriter fields dereferenced
    output,     \* destination -> chunks written to it so far
    lastOp,     \* history: the call that produced this state
    lastData,   \* history: the LogData built by the last Print/Printf
    nCalls,     \* history: number of calls made since construction
    sinkWriterUsed, \* history: some logger.<sink>.SetWriter call was made
    lastWriterArg,  \* history: the argument of the last Logger.SetWriter call
    lastLevelArg,   \* history: the argument of the last SetOutputLevel call
    race            \* two concurrent Logger.SetWriter calls: where each stands

vars == <<logger, output, lastOp, lastData, nCalls, sinkWriterUsed,
          lastWriterArg, lastLevelArg, race>>

(***************************************************************************)
(* Bounds of the model.                                                    *)
(***************************************************************************)
MaxCalls == 3
MaxWideCalls == 2

(***************************************************************************)
(* Levels and package constants.                                           *)
(***************************************************************************)
LevelFatal == 0
LevelCritical == 1
LevelError == 2
LevelWarning == 3
LevelNotice == 4
LevelInfo == 5
LevelDebug == 6

Levels == LevelFatal .. LevelDebug

DefaultLogFormat == <<".Time", " [", ".Level", "] ", ".Message">>
DefaultLogLevel == LevelNotice
EOL == "\n"

LevelNames ==
    [l \in Levels |->
        CASE l = LevelDebug    -> "DEBUG"
          [] l = LevelInfo     -> "INFO"
          [] l = LevelNotice   -> "NOTICE"
          [] l = LevelWarning  -> "WARN"
          [] l = LevelError    -> "ERROR"
          [] l = LevelCritical -> "CRIT"
          [] l = LevelFatal    -> "FATAL"]

LevelString(level) == LevelNames[level]

(***************************************************************************)
(* Destinations (io.Writer values).  Stdout and Discard are the ones the   *)
(* package names; out is a caller's bytes.Buffer.  NilWriter is the zero   *)
(* value of the writer field.                                              *)
(***************************************************************************)
Stdout == "os.Stdout"
Discard == "ioutil.Discard"
Out == "out"
NilWriter == "nil"

DefaultLogWriter == Stdout

\* A destination whose Write returns an error and keeps nothing.
Broken == "broken"

Buffers == {Stdout, Out}
Writers == Buffers \cup {Discard}

\* io.Writer.Write: Discard drops the bytes, a broken destination fails and
\* keeps none, any other destination keeps them.
Write(w, content, chunks) ==
    IF w \in {Discard, Broken} THEN content
    ELSE [content EXCEPT ![w] = @ \o chunks]

(***************************************************************************)
(* text/template: Parse and Execute.                                       *)
(***************************************************************************)
Unclosed == "{{.Level"
Fields == {".Time", ".Level", ".Message"}
Actions == Fields \cup {".Bogus"}

NilTemplate == [name |-> "nil", tree |-> <<>>]

\* template.New(name).Parse(format): fails on an action that is never closed.
Parse(name, format) ==
    IF \E i \in DOMAIN format : format[i] = Unclosed
    THEN [err |-> TRUE, tmpl |-> NilTemplate]
    ELSE [err |-> FALSE, tmpl |-> [name |-> name, tree |-> format]]

\* template.Must(template.New(name).Parse(format))
Must(name, format) == Parse(name, format).tmpl

EvalField(data, f) ==
    CASE f = ".Time"    -> data.Time
      [] f = ".Level"   -> data.Level
      [] f = ".Message" -> data.Message

\* Template.Execute: walks the tree writing each node's text; stops at the
\* first field the data does not have, keeping what was already written.
RECURSIVE Walk(_, _)
Walk(tree, data) ==
    IF tree = <<>> THEN [chunks |-> <<>>, err |-> FALSE]
    ELSE LET n == Head(tree) IN
         IF n \in Actions /\ n \notin Fields
         THEN [chunks |-> <<>>, err |-> TRUE]
         ELSE LET rest == Walk(Tail(tree), data)
                  text == IF n \in Fields THEN EvalField(data, n) ELSE n
              IN  [chunks |-> <<text>> \o rest.chunks, err |-> rest.err]

Execute(tmpl, data) == Walk(tmpl.tree, data)

TemplateDebug ==
    Must("ColoredDebug",
         <<".Time", " ESC[37m[", ".Level", "] ", ".Message", " ESC[0m">>)
TemplateInfo ==
    Must("ColoredInfo",
         <<".Time", " ESC[32m[", ".Level", "] ", ".Message", " ESC[0m">>)
TemplateNotice ==
    Must("ColoredNotice",
         <<".Time", " ESC[34m[", ".Level", "] ", ".Message", " ESC[0m">>)
TemplateWarning ==
    Must("ColoredWarning",
         <<".Time", " ESC[33m[", ".Level", "] ", ".Message", " ESC[0m">>)
TemplateError ==
    Must("ColoredError",
         <<".Time", " ESC[31m[", ".Level", "] ", ".Message", " ESC[0m">>)
TemplateCritical ==
    Must("ColoredCritical",
         <<".Time", " ESC[35m[", ".Level", "] ", ".Message", " ESC[0m">>)
TemplateFatal ==
    Must("ColoredFatal",
         <<".Time", " ESC[30;41m[", ".Level", "] ", ".Message", " ESC[0m">>)

(***************************************************************************)
(* time: layouts and time.Now().Format(layout).  The clock is held at the  *)
(* reference instant, whose rendering under a layout is the layout's own   *)
(* text.                                                                   *)
(***************************************************************************)
ANSIC == "Mon Jan _2 15:04:05 2006"
Kitchen == "3:04PM"
TimeFormats == {ANSIC, Kitchen}

FormatNow(layout) ==
    CASE layout = ANSIC   -> "Mon Jan  2 15:04:05 2006"
      [] layout = Kitchen -> "3:04PM"

(***************************************************************************)
(* fmt.Sprint and fmt.Sprintf over string and integer operands.            *)
(***************************************************************************)
IsVerb(p) == p \in {"%d", "%s"}

RECURSIVE Sprintf(_, _)
Sprintf(format, v) ==
    IF format = <<>> THEN ""
    ELSE LET p == Head(format) IN
         IF IsVerb(p)
         THEN IF v = <<>>
              THEN "%!" \o p \o "(MISSING)" \o Sprintf(Tail(format), v)
              ELSE (IF p = "%d" THEN ToString(Head(v)) ELSE Head(v))
                   \o Sprintf(Tail(format), Tail(v))
         ELSE p \o Sprintf(Tail(format), v)

RECURSIVE Sprint(_)
Sprint(v) == IF v = <<>> THEN "" ELSE Head(v) \o Sprint(Tail(v))

(***************************************************************************)
(* The Logger struct: its fields in declaration order, with their types.   *)
(***************************************************************************)
LoggerFields ==
    << <<"defaultLogWriter", "io.Writer">>, <<"name", "string">>,
       <<"outputLevel", "LogLevel">>, <<"timeFormat", "string">>,
       <<"DEBUG", "*LogWriter">>, <<"INFO", "*LogWriter">>,
       <<"NOTICE", "*LogWriter">>, <<"WARN", "*LogWriter">>,
       <<"ERROR", "*LogWriter">>, <<"CRITICAL", "*LogWriter">>,
       <<"FATAL", "*LogWriter">> >>

Sinks == {"DEBUG", "INFO", "NOTICE", "WARN", "ERROR", "CRITICAL", "FATAL"}

\* A variant of the sink literal with a plausible slip: the level is left at
\* its zero value.
NewLogWriterZeroLevel(level) ==
    [writer |-> NilWriter, level |-> LevelFatal, template |-> NilTemplate]

\* &LogWriter{level: level}
NewLogWriter(level) ==
    [writer |-> NilWriter, level |-> level, template |-> NilTemplate]

\* LogWriter.SetWriter
LogWriterSetWriter(w, d) == [w EXCEPT !.writer = d]

\* LogWriter.SetTemplate
LogWriterSetTemplate(w, tmpl) == [w EXCEPT !.template = tmpl]

\* Logger.foreachLogWriter: the fields of type *LogWriter, in the order the
\* loop over the struct's fields visits them.
RECURSIVE foreachFrom(_)
foreachFrom(i) ==
    IF i > Len(LoggerFields) THEN <<>>
    ELSE IF LoggerFields[i][2] = "*LogWriter"
         THEN <<LoggerFields[i][1]>> \o foreachFrom(i + 1)
         ELSE foreachFrom(i + 1)

foreachLogWriter == foreachFrom(1)

\* Variants of the closure with a plausible slip: the comparison reversed, the
\* comparison made inclusive, an existing destination kept, and the sink
\* rebuilt instead of updated.
RouteWriterReversed(w, level, d) ==
    IF w.level < level
    THEN LogWriterSetWriter(w, Discard)
    ELSE LogWriterSetWriter(w, d)

RouteWriterInclusive(w, level, d) ==
    IF w.level >= level
    THEN LogWriterSetWriter(w, Discard)
    ELSE LogWriterSetWriter(w, d)

RouteWriterKeepExisting(w, level, d) ==
    IF w.level > level
    THEN LogWriterSetWriter(w, Discard)
    ELSE IF w.writer \in {NilWriter, Discard}
         THEN LogWriterSetWriter(w, d)
         ELSE w

RouteWriterRebuild(w, level, d) ==
    IF w.level > level
    THEN LogWriterSetWriter(NewLogWriter(w.level), Discard)
    ELSE LogWriterSetWriter(NewLogWriter(w.level), d)

\* The closure Logger.SetWriter passes to foreachLogWriter.
RouteWriter(w, level, d) ==
    IF w.level > level
    THEN LogWriterSetWriter(w, Discard)
    ELSE LogWriterSetWriter(w, d)

\* Logger.SetWriter's loop: the closure applied to the sinks still to visit.
RECURSIVE RouteEach(_, _, _)
RouteEach(l, d, visit) ==
    IF visit = <<>> THEN l
    ELSE RouteEach([l EXCEPT ![Head(visit)] = RouteWriter(@, l.outputLevel, d)],
                   d, Tail(visit))

\* A variant of SetWriter with a plausible slip: the destination is handed
\* to the sinks but not recorded as the default.
LoggerSetWriterUnrecorded(l, d) == RouteEach(l, d, foreachLogWriter)

\* Logger.SetWriter
LoggerSetWriter(l, d) ==
    [RouteEach(l, d, foreachLogWriter) EXCEPT !.defaultLogWriter = d]

\* Variants of SetOutputLevel with a plausible slip: the sinks not rerouted,
\* and the package's default destination used instead of the Logger's.
LoggerSetOutputLevelOnly(l, level) == [l EXCEPT !.outputLevel = level]

LoggerSetOutputLevelPackageDefault(l, level) ==
    LET l1 == [l EXCEPT !.outputLevel = level]
        l2 == LoggerSetWriter(l1, DefaultLogWriter)
    IN  [l2 EXCEPT !.defaultLogWriter = l.defaultLogWriter]

\* A variant of SetOutputLevel with a plausible slip: the sinks are rerouted
\* for the new threshold, which is not stored.
LoggerSetOutputLevelUnstored(l, level) ==
    [LoggerSetWriter([l EXCEPT !.outputLevel = level], l.defaultLogWriter)
        EXCEPT !.outputLevel = l.outputLevel]

\* Logger.SetOutputLevel
LoggerSetOutputLevel(l, level) ==
    LET l1 == [l EXCEPT !.outputLevel = level]
    IN  LoggerSetWriter(l1, l1.defaultLogWriter)

\* Logger.OutputLevel
OutputLevel(l) == l.outputLevel

\* Logger.SetFormat's loop: the template given to the sinks still to visit.
RECURSIVE TemplateEach(_, _, _)
TemplateEach(l, tmpl, visit) ==
    IF visit = <<>> THEN l
    ELSE TemplateEach([l EXCEPT ![Head(visit)] = LogWriterSetTemplate(@, tmpl)],
                      tmpl, Tail(visit))

\* Variants of SetFormat with a plausible slip: only the sinks the threshold
\* enables are given the template, and the template is applied before the
\* parse error is looked at.
LoggerSetFormatEnabledOnly(l, format) ==
    LET p == Parse(l.name, format)
        enabled == SelectSeq(foreachLogWriter,
                             LAMBDA f : l[f].level <= l.outputLevel)
    IN  IF ~p.err
        THEN [logger |-> TemplateEach(l, p.tmpl, enabled), err |-> FALSE]
        ELSE [logger |-> l, err |-> TRUE]

LoggerSetFormatApplyFirst(l, format) ==
    LET p == Parse(l.name, format) IN
    [logger |-> TemplateEach(l, p.tmpl, foreachLogWriter), err |-> p.err]

\* Logger.SetFormat: the Logger it leaves and the error it returns.
LoggerSetFormat(l, format) ==
    LET p == Parse(l.name, format) IN
    IF ~p.err
    THEN [logger |-> TemplateEach(l, p.tmpl, foreachLogWriter), err |-> FALSE]
    ELSE [logger |-> l, err |-> TRUE]

\* Logger.SetTimeFormat
LoggerSetTimeFormat(l, format) == [l EXCEPT !.timeFormat = format]

\* A variant of createLogger with a plausible slip: the default destination
\* is recorded but never handed to the sinks.
createLoggerUnrouted(name, format) ==
    LET l0 == [defaultLogWriter |-> DefaultLogWriter,
               name             |-> name,
               outputLevel      |-> DefaultLogLevel,
               timeFormat       |-> ANSIC,
               DEBUG            |-> NewLogWriter(LevelDebug),
               INFO             |-> NewLogWriter(LevelInfo),
               NOTICE           |-> NewLogWriter(LevelNotice),
               WARN             |-> NewLogWriter(LevelWarning),
               ERROR            |-> NewLogWriter(LevelError),
               CRITICAL         |-> NewLogWriter(LevelCritical),
               FATAL            |-> NewLogWriter(LevelFatal)]
    IN  LoggerSetFormat(l0, DefaultLogFormat)

\* createLogger: the Logger it returns and its error.
createLogger(name, format) ==
    LET l0 == [defaultLogWriter |-> DefaultLogWriter,
               name             |-> name,
               outputLevel      |-> DefaultLogLevel,
               timeFormat       |-> ANSIC,
               DEBUG            |-> NewLogWriter(LevelDebug),
               INFO             |-> NewLogWriter(LevelInfo),
               NOTICE           |-> NewLogWriter(LevelNotice),
               WARN             |-> NewLogWriter(LevelWarning),
               ERROR            |-> NewLogWriter(LevelError),
               CRITICAL         |-> NewLogWriter(LevelCritical),
               FATAL            |-> NewLogWriter(LevelFatal)]
        l1 == LoggerSetWriter(l0, l0.defaultLogWriter)
    IN  LoggerSetFormat(l1, DefaultLogFormat)

\* NewPlainLogger (a construction error panics: no Logger exists then).
NewPlainLogger(name) == createLogger(name, DefaultLogFormat)

\* NewLogger
NewLogger(name) ==
    LET c == createLogger(name, DefaultLogFormat)
        l == c.logger
    IN  [logger |->
            [l EXCEPT !.DEBUG    = LogWriterSetTemplate(@, TemplateDebug),
                      !.INFO     = LogWriterSetTemplate(@, TemplateInfo),
                      !.NOTICE   = LogWriterSetTemplate(@, TemplateNotice),
                      !.WARN     = LogWriterSetTemplate(@, TemplateWarning),
                      !.ERROR    = LogWriterSetTemplate(@, TemplateError),
                      !.CRITICAL = LogWriterSetTemplate(@, TemplateCritical),
                      !.FATAL    = LogWriterSetTemplate(@, TemplateFatal)],
         err |-> c.err]

\* The LogData that LogWriter.Print / LogWriter.Printf build.
PrintData(w, v) ==
    [Time |-> FormatNow(ANSIC), Level |-> LevelString(w.level), Message |-> Sprint(v)]

PrintfData(w, format, v) ==
    [Time |-> FormatNow(ANSIC), Level |-> LevelString(w.level),
     Message |-> Sprintf(format, v)]

\* A variant of the two writes with a plausible slip: when the sink's
\* destination fails, the line is written to the package's default instead.
EmitFallback(w, content, data) ==
    LET to == IF w.writer = Broken THEN DefaultLogWriter ELSE w.writer
        c1 == Write(to, content, Execute(w.template, data).chunks)
    IN  Write(to, c1, <<EOL>>)

\* The two writes that end Print and Printf: the template's output, then EOL;
\* neither result is looked at.
Emit(w, content, data) ==
    LET c1 == Write(w.writer, content, Execute(w.template, data).chunks)
    IN  Write(w.writer, c1, <<EOL>>)

(***************************************************************************)
(* The caller: inputs of the calls, and the state machine of one Logger    *)
(* driven through its public operations.                                   *)
(***************************************************************************)
LoggerName == "testing"

TestFormat == <<">>> ", ".Level", " ", ".Message">>
BadFormat == <<">>> ", Unclosed>>
Formats == {DefaultLogFormat, TestFormat, BadFormat}

TestTemplate == Must("testing", <<"<", ".Level", "> ", ".Message">>)
Templates == {TestTemplate}

PrintArgs == {<<"notice message">>}
PrintfArgs == {[format |-> <<"notice message: ", "%d">>, v |-> <<12306>>]}

NoData == [Time |-> "", Level |-> "", Message |-> ""]
NoLevel == LevelFatal - 1

Call(op, sink, w, level, arg, err) ==
    [op |-> op, sink |-> sink, writer |-> w, level |-> level, arg |-> arg,
     err |-> err]

\* No concurrent SetWriter calls are under way.
NoRace == [started |-> FALSE, pc |-> <<"idle", "idle">>, i |-> <<1, 1>>,
           d |-> <<"", "">>, start |-> <<>>]

Constructed(op, c) ==
    /\ ~c.err
    /\ logger = c.logger
    /\ output = [d \in Buffers |-> <<>>]
    /\ lastOp = Call(op, "", "", NoLevel, <<>>, FALSE)
    /\ lastData = NoData
    /\ nCalls = 0
    /\ sinkWriterUsed = FALSE
    /\ lastWriterArg = DefaultLogWriter
    /\ lastLevelArg = LevelNotice
    /\ race = NoRace

Init ==
    \/ Constructed("NewLogger", NewLogger(LoggerName))
    \/ Constructed("NewPlainLogger", NewPlainLogger(LoggerName))

SetWriter(d) ==
    /\ nCalls < MaxCalls
    /\ logger' = LoggerSetWriter(logger, d)
    /\ lastWriterArg' = d
    /\ lastOp' = Call("SetWriter", "", d, NoLevel, <<>>, FALSE)
    /\ nCalls' = nCalls + 1
    /\ UNCHANGED <<output, lastData, sinkWriterUsed, lastLevelArg, race>>

SetOutputLevel(level) ==
    /\ nCalls < MaxCalls
    /\ logger' = LoggerSetOutputLevel(logger, level)
    /\ lastLevelArg' = level
    /\ lastOp' = Call("SetOutputLevel", "", "", level, <<>>, FALSE)
    /\ nCalls' = nCalls + 1
    /\ UNCHANGED <<output, lastData, sinkWriterUsed, lastWriterArg, race>>

SetFormat(format) ==
    /\ nCalls < MaxCalls
    /\ LET r == LoggerSetFormat(logger, format) IN
        /\ logger' = r.logger
        /\ lastOp' = Call("SetFormat", "", "", NoLevel, format, r.err)
    /\ nCalls' = nCalls + 1
    /\ UNCHANGED <<output, lastData, sinkWriterUsed, lastWriterArg,
                   lastLevelArg, race>>

SetTimeFormat(format) ==
    /\ nCalls < MaxCalls
    /\ logger' = LoggerSetTimeFormat(logger, format)
    /\ lastOp' = Call("SetTimeFormat", "", "", NoLevel, <<format>>, FALSE)
    /\ nCalls' = nCalls + 1
    /\ UNCHANGED <<output, lastData, sinkWriterUsed, lastWriterArg,
                   lastLevelArg, race>>

\* logger.<sink>.SetWriter(d)
SinkSetWriter(sink, d) ==
    /\ nCalls < MaxCalls
    /\ logger' = [logger EXCEPT ![sink] = LogWriterSetWriter(@, d)]
    /\ sinkWriterUsed' = TRUE
    /\ lastOp' = Call("LogWriter.SetWriter", sink, d, NoLevel, <<>>, FALSE)
    /\ nCalls' = nCalls + 1
    /\ UNCHANGED <<output, lastData, lastWriterArg, lastLevelArg, race>>

\* logger.<sink>.SetTemplate(tmpl)
SinkSetTemplate(sink, tmpl) ==
    /\ nCalls < MaxCalls
    /\ logger' = [logger EXCEPT ![sink] = LogWriterSetTemplate(@, tmpl)]
    /\ lastOp' = Call("LogWriter.SetTemplate", sink, "", NoLevel, tmpl.tree, FALSE)
    /\ nCalls' = nCalls + 1
    /\ UNCHANGED <<output, lastData, sinkWriterUsed, lastWriterArg,
                   lastLevelArg, race>>

\* A variant of Print with a plausible slip: the threshold is consulted at
\* emission, and a disabled level writes nothing.
SinkPrintGated(sink, v) ==
    /\ nCalls < MaxCalls
    /\ LET data == PrintData(logger[sink], v) IN
        /\ output' = IF logger[sink].level > logger.outputLevel THEN output
                      ELSE Emit(logger[sink], output, data)
        /\ lastData' = data
    /\ lastOp' = Call("Print", sink, "", NoLevel, v, FALSE)
    /\ nCalls' = nCalls + 1
    /\ UNCHANGED <<logger, sinkWriterUsed, lastWriterArg, lastLevelArg, race>>

\* logger.<sink>.Print(v...)
SinkPrint(sink, v) ==
    /\ nCalls < MaxCalls
    /\ LET data == PrintData(logger[sink], v) IN
        /\ output' = Emit(logger[sink], output, data)
        /\ lastData' = data
    /\ lastOp' = Call("Print", sink, "", NoLevel, v, FALSE)
    /\ nCalls' = nCalls + 1
    /\ UNCHANGED <<logger, sinkWriterUsed, lastWriterArg, lastLevelArg, race>>

\* logger.<sink>.Printf(format, v...)
SinkPrintf(sink, format, v) ==
    /\ nCalls < MaxCalls
    /\ LET data == PrintfData(logger[sink], format, v) IN
        /\ output' = Emit(logger[sink], output, data)
        /\ lastData' = data
    /\ lastOp' = Call("Printf", sink, "", NoLevel, format, FALSE)
    /\ nCalls' = nCalls + 1
    /\ UNCHANGED <<logger, sinkWriterUsed, lastWriterArg, lastLevelArg, race>>

Next ==
    \/ \E d \in Writers : SetWriter(d)
    \/ \E level \in Levels : SetOutputLevel(level)
    \/ \E format \in Formats : SetFormat(format)
    \/ \E format \in TimeFormats : SetTimeFormat(format)
    \/ \E sink \in Sinks, d \in Writers : SinkSetWriter(sink, d)
    \/ \E sink \in Sinks, tmpl \in Templates : SinkSetTemplate(sink, tmpl)
    \/ \E sink \in Sinks, v \in PrintArgs : SinkPrint(sink, v)
    \/ \E sink \in Sinks, a \in PrintfArgs : SinkPrintf(sink, a.format, a.v)

Spec == Init /\ [][Next]_vars

(***************************************************************************)
(* The same Logger driven only through the calls that set destinations and *)
(* the threshold: the states from which the Logger-wide calls are compared. *)
(***************************************************************************)
NextWide ==
    \/ \E d \in Writers : nCalls < MaxWideCalls /\ SetWriter(d)
    \/ \E level \in Levels : nCalls < MaxWideCalls /\ SetOutputLevel(level)
    \/ \E sink \in Sinks, d \in Writers :
          nCalls < MaxWideCalls /\ SinkSetWriter(sink, d)

SpecWide == Init /\ [][NextWide]_vars

(***************************************************************************)
(* Two threads call Logger.SetWriter on one Logger with no lock.  Each     *)
(* closure call on a sink and the final assignment of defaultLogWriter is  *)
(* a step of its own.  The two writes to one field are a data race: the    *)
(* later one leaves its own value or, the interface value being two words, *)
(* a value torn between the two.                                           *)
(***************************************************************************)
Torn == "torn"

Threads == {1, 2}

Other(t) == 3 - t

\* What a racing write of value v leaves in a field that holds cur, given
\* whether the other thread has written the field already.
RaceOutcomes(otherWrote, cur, v) ==
    IF otherWrote /\ cur # v THEN {v, Torn} ELSE {v}

\* The two go statements: both calls begin, on the Logger as it is.
RaceStart(d1, d2) ==
    /\ ~race.started
    /\ d1 # d2
    /\ race' = [started |-> TRUE, pc |-> <<"loop", "loop">>, i |-> <<1, 1>>,
                d |-> <<d1, d2>>, start |-> logger]
    /\ UNCHANGED <<logger, output, lastOp, lastData, nCalls, sinkWriterUsed,
                   lastWriterArg, lastLevelArg>>

\* One iteration of thread t's loop: the closure routes the next sink.
RaceRoute(t) ==
    /\ race.started
    /\ race.pc[t] = "loop"
    /\ LET name       == foreachLogWriter[race.i[t]]
           routed     == RouteWriter(logger[name], logger.outputLevel, race.d[t])
           otherWrote == \/ race.pc[Other(t)] # "loop"
                         \/ race.i[Other(t)] > race.i[t]
       IN  \E w \in RaceOutcomes(otherWrote, logger[name].writer, routed.writer) :
               logger' = [logger EXCEPT ![name] = LogWriterSetWriter(routed, w)]
    /\ race' = [race EXCEPT
                   !.i[t] = @ + 1,
                   !.pc[t] = IF race.i[t] = Len(foreachLogWriter)
                             THEN "setDefault" ELSE "loop"]
    /\ UNCHANGED <<output, lastOp, lastData, nCalls, sinkWriterUsed,
                   lastWriterArg, lastLevelArg>>

\* Thread t's last statement: l.defaultLogWriter = writer.
RaceSetDefault(t) ==
    /\ race.started
    /\ race.pc[t] = "setDefault"
    /\ \E w \in RaceOutcomes(race.pc[Other(t)] = "done",
                              logger.defaultLogWriter, race.d[t]) :
           logger' = [logger EXCEPT !.defaultLogWriter = w]
    /\ race' = [race EXCEPT !.pc[t] = "done"]
    /\ UNCHANGED <<output, lastOp, lastData, nCalls, sinkWriterUsed,
                   lastWriterArg, lastLevelArg>>

\* The threshold is set, at most once, before the two threads start.
NextRace ==
    \/ /\ ~race.started
       /\ nCalls = 0
       /\ \E level \in Levels : SetOutputLevel(level)
    \/ \E d1, d2 \in Writers : RaceStart(d1, d2)
    \/ \E t \in Threads : RaceRoute(t)
    \/ \E t \in Threads : RaceSetDefault(t)

SpecRace == Init /\ [][NextRace]_vars

(***************************************************************************)
(* The same Logger driven with inputs that make an emission fail: a        *)
(* template naming a field LogData does not have, and a destination whose  *)
(* Write fails.                                                            *)
(***************************************************************************)
BogusFormat == <<">>> ", ".Bogus">>
BogusTemplate == Must("testing", BogusFormat)

NextFaults ==
    \/ \E d \in {Out, Broken} : SetWriter(d)
    \/ \E format \in {TestFormat, BogusFormat} : SetFormat(format)
    \/ \E sink \in Sinks : SinkSetWriter(sink, Broken)
    \/ \E sink \in Sinks : SinkSetTemplate(sink, BogusTemplate)
    \/ \E sink \in Sinks, v \in PrintArgs : SinkPrint(sink, v)
    \/ \E sink \in Sinks, a \in PrintfArgs : SinkPrintf(sink, a.format, a.v)

SpecFaults == Init /\ [][NextFaults]_vars

(***************************************************************************)
(* Properties.                                                             *)
(***************************************************************************)
\* The severity each accessor stands for: FATAL=0 < CRITICAL=1 < ERROR=2 <
\* WARNING=3 < NOTICE=4 < INFO=5 < DEBUG=6.
Severity ==
    [s \in Sinks |->
        CASE s = "FATAL"    -> LevelFatal
          [] s = "CRITICAL" -> LevelCritical
          [] s = "ERROR"    -> LevelError
          [] s = "WARN"     -> LevelWarning
          [] s = "NOTICE"   -> LevelNotice
          [] s = "INFO"     -> LevelInfo
          [] s = "DEBUG"    -> LevelDebug]

Emissions == {"Print", "Printf"}

\* In this step destination d received one more line: its old content is
\* kept and chunks ending in the line terminator follow it.
Appended(d) ==
    /\ Len(output'[d]) > Len(output[d])
    /\ SubSeq(output'[d], 1, Len(output[d])) = output[d]
    /\ output'[d][Len(output'[d])] = EOL

\* C1, first half: in the state a Logger-wide SetWriter(D) leaves, a sink
\* holds D when its level's severity is at most the threshold and the
\* discard destination otherwise.
C1_Routed ==
    lastOp.op = "SetWriter" =>
        \A s \in Sinks :
            logger[s].writer =
                IF Severity[s] <= logger.outputLevel THEN lastOp.writer
                ELSE Discard

\* C1, second half: a Print/Printf made right after a Logger-wide
\* SetWriter(D), D a destination that keeps what it is given, appends to D
\* iff the sink's severity is at most the threshold.
C1_Emits ==
    (lastOp.op = "SetWriter" /\ lastOp.writer \in Buffers
        /\ lastOp'.op \in Emissions)
    => IF Severity[lastOp'.sink] <= logger.outputLevel
       THEN Appended(lastOp.writer)
       ELSE output'[lastOp.writer] = output[lastOp.writer]

\* C1: after Logger-wide SetWriter(D) at threshold T every sink holds D if
\* its severity is <= T and discard otherwise, so an emission that follows
\* reaches D iff its level's severity is <= T.
C1_SetWriterRoutesByThreshold == []C1_Routed /\ [][C1_Emits]_vars

\* C1 witness: SetWriter(out) was made at threshold ERROR, leaving ERROR on
\* out and NOTICE discarded.
C1_Witness ==
    /\ lastOp.op = "SetWriter"
    /\ lastOp.writer = Out
    /\ logger.outputLevel = LevelError
    /\ logger.ERROR.writer = Out
    /\ logger.NOTICE.writer = Discard

\* C2, emission: with no per-sink SetWriter ever made and the Logger's
\* destination a buffer B, an emission on a level appends to B iff the
\* level's severity is at most the threshold in force, and touches no other
\* destination.
C2_Emits ==
    (~sinkWriterUsed /\ lastOp'.op \in Emissions
        /\ logger.defaultLogWriter \in Buffers)
    => LET B == logger.defaultLogWriter IN
       /\ IF Severity[lastOp'.sink] <= logger.outputLevel
          THEN Appended(B)
          ELSE output'[B] = output[B]
       /\ \A d \in Buffers \ {B} : output'[d] = output[d]

\* C2, threshold change: SetOutputLevel leaves every destination's content
\* as it was.
C2_Keeps == lastOp'.op = "SetOutputLevel" => output' = output

\* C2: without per-sink SetWriter calls, a line emitted on level L reaches
\* the Logger's buffer iff L <= the threshold at the moment of the emission,
\* and threshold changes neither add nor remove emitted lines.
C2_ThresholdInForceDecides == [][C2_Emits /\ C2_Keeps]_vars

\* C2 witness: after SetWriter(out) and SetOutputLevel(ERROR), ERROR.Print
\* has written to out.
C2_Witness ==
    /\ ~sinkWriterUsed
    /\ lastOp.op = "Print"
    /\ lastOp.sink = "ERROR"
    /\ logger.outputLevel = LevelError
    /\ logger.defaultLogWriter = Out
    /\ output[Out] # <<>>

\* C3, the call: logger.<sink>.SetWriter(D') changes that sink's destination
\* to D' and nothing else of the Logger or of the destinations' content.
C3_OnlyThatSink ==
    lastOp'.op = "LogWriter.SetWriter" =>
        /\ logger' = [logger EXCEPT ![lastOp'.sink].writer = lastOp'.writer]
        /\ output' = output

\* C3, emission: an emission on the sink right after its SetWriter(D') is
\* written to D' and to no other destination.
C3_EmitsToOverride ==
    (lastOp.op = "LogWriter.SetWriter" /\ lastOp'.op \in Emissions
        /\ lastOp'.sink = lastOp.sink)
    => /\ lastOp.writer \in Buffers => Appended(lastOp.writer)
       /\ \A d \in Buffers \ {lastOp.writer} : output'[d] = output[d]

\* C3, emission in general: an emission is written to the destination its
\* sink holds and to no other.
C3_EmitsToCurrent ==
    lastOp'.op \in Emissions =>
        LET d == logger[lastOp'.sink].writer IN
        /\ d \in Buffers => Appended(d)
        /\ \A b \in Buffers \ {d} : output'[b] = output[b]

\* C3, persistence: only a per-sink SetWriter and the two Logger-wide calls
\* change any sink's destination.
C3_HeldUntilWide ==
    lastOp'.op \notin {"LogWriter.SetWriter", "SetWriter", "SetOutputLevel"} =>
        \A s \in Sinks : logger'[s].writer = logger[s].writer

\* C3, loss: a Logger-wide SetWriter or SetOutputLevel leaves every sink on
\* the default destination or on discard, whatever it held before.
C3_Lost ==
    lastOp'.op \in {"SetWriter", "SetOutputLevel"} =>
        \A s \in Sinks :
            logger'[s].writer =
                IF Severity[s] <= logger'.outputLevel
                THEN logger'.defaultLogWriter ELSE Discard

\* C3: a per-sink SetWriter(D') changes only that sink's destination, the
\* sink's emissions then go to D', and the next Logger-wide SetWriter or
\* SetOutputLevel overwrites it.
C3_SinkWriterOverride ==
    [][/\ C3_OnlyThatSink
       /\ C3_EmitsToOverride
       /\ C3_EmitsToCurrent
       /\ C3_HeldUntilWide
       /\ C3_Lost]_vars

\* C3 witness: with the Logger on os.Stdout and NOTICE overridden to out,
\* NOTICE.Print has written to out and nothing has reached os.Stdout.
C3_Witness ==
    /\ lastOp.op = "Print"
    /\ lastOp.sink = "NOTICE"
    /\ logger.NOTICE.writer = Out
    /\ logger.defaultLogWriter = Stdout
    /\ logger.ERROR.writer = Stdout
    /\ output[Out] # <<>>
    /\ output[Stdout] = <<>>

\* A format with every action closed.
WellFormed(format) == \A i \in DOMAIN format : format[i] # Unclosed

\* C4, the call: logger.<sink>.SetTemplate(P) gives that sink template P and
\* changes nothing else.
C4_OnlyThatTemplate ==
    lastOp'.op = "LogWriter.SetTemplate" =>
        /\ \E P \in Templates :
              /\ P.tree = lastOp'.arg
              /\ logger' = [logger EXCEPT ![lastOp'.sink].template = P]
        /\ output' = output

\* C4, survival: every call other than a per-sink SetTemplate and a
\* successful SetFormat leaves every sink's template as it was.
C4_Survives ==
    (lastOp'.op # "LogWriter.SetTemplate"
        /\ ~(lastOp'.op = "SetFormat" /\ ~lastOp'.err))
    => \A s \in Sinks : logger'[s].template = logger[s].template

\* C4, effect: an emission renders through the template its sink holds.
C4_TakesEffect ==
    (lastOp'.op \in Emissions /\ logger[lastOp'.sink].writer \in Buffers)
    => LET w == logger[lastOp'.sink] IN
       output'[w.writer] =
           output[w.writer] \o Execute(w.template, lastData').chunks \o <<EOL>>

\* C4: a per-sink SetTemplate changes only that sink's template, is used by
\* the sink's emissions, and is kept by Logger-wide SetWriter and
\* SetOutputLevel; only a successful SetFormat replaces it.
C4_SinkTemplateOverride ==
    [][C4_OnlyThatTemplate /\ C4_Survives /\ C4_TakesEffect]_vars

\* C4 witness: NOTICE still holds the template given by NOTICE.SetTemplate
\* after a SetOutputLevel call, and ERROR does not hold it.
C4_Witness ==
    /\ lastOp.op = "SetOutputLevel"
    /\ logger.NOTICE.template = TestTemplate
    /\ logger.ERROR.template # TestTemplate

\* C5, the templates: after SetFormat with a well-formed format no error is
\* returned and all seven sinks hold the one template parsed from it.
C5_Uniform ==
    (lastOp.op = "SetFormat" /\ WellFormed(lastOp.arg)) =>
        /\ ~lastOp.err
        /\ \A s \in Sinks :
              logger[s].template = [name |-> logger.name, tree |-> lastOp.arg]

\* C5, the frame: such a call changes no sink's destination or level, nor
\* the threshold, the default destination, or any destination's content.
C5_Frame ==
    (lastOp'.op = "SetFormat" /\ WellFormed(lastOp'.arg)) =>
        /\ \A s \in Sinks :
              /\ logger'[s].writer = logger[s].writer
              /\ logger'[s].level = logger[s].level
        /\ logger'.outputLevel = logger.outputLevel
        /\ logger'.defaultLogWriter = logger.defaultLogWriter
        /\ output' = output

\* C5: a SetFormat whose format parses gives all seven sinks, discarded and
\* overridden ones included, the same template and changes no destination,
\* threshold or default destination.
C5_SetFormatUniform == []C5_Uniform /\ [][C5_Frame]_vars

\* C5 witness: after SetFormat(TestFormat) the discarded DEBUG sink holds the
\* new template.
C5_Witness ==
    /\ lastOp.op = "SetFormat"
    /\ lastOp.arg = TestFormat
    /\ logger.DEBUG.writer = Discard
    /\ logger.DEBUG.template.tree = TestFormat
    /\ logger.NOTICE.template.tree = TestFormat

\* A SetFormat step whose format does not parse returns an error and changes
\* neither the Logger nor any destination's content.
C6_Failed ==
    (lastOp'.op = "SetFormat" /\ ~WellFormed(lastOp'.arg)) =>
        /\ lastOp'.err
        /\ logger' = logger
        /\ output' = output

\* C6: a SetFormat whose format does not parse returns an error and leaves
\* the Logger exactly as it was: every sink keeps its template and its
\* destination, per-sink overrides included.
C6_SetFormatFailureAtomic == [][C6_Failed]_vars

\* C6 witness: SetFormat returned an error and NOTICE still holds the
\* template given by NOTICE.SetTemplate.
C6_Witness ==
    /\ lastOp.op = "SetFormat"
    /\ lastOp.err
    /\ logger.NOTICE.template = TestTemplate
    /\ logger.ERROR.template # TestTemplate

\* A SetOutputLevel step that raises the threshold stores the new threshold
\* and gives every newly enabled sink the last Logger-wide SetWriter argument.
C7_Raise ==
    (lastOp'.op = "SetOutputLevel" /\ logger.outputLevel < lastOp'.level) =>
        /\ logger'.outputLevel = lastOp'.level
        /\ \A s \in Sinks :
              (logger.outputLevel < Severity[s] /\ Severity[s] <= lastOp'.level)
              => logger'[s].writer = lastWriterArg

\* C7: when SetOutputLevel raises the threshold from T1 to T2, every sink
\* with T1 < severity <= T2 gets the destination last passed to Logger-wide
\* SetWriter (os.Stdout if there was no such call), whatever it held.
C7_RaiseRestoresDefault == [][C7_Raise]_vars

\* C7 witness: three calls, one of them a per-sink SetWriter and one
\* SetWriter(out), ended by SetOutputLevel(DEBUG): DEBUG and INFO are on out.
C7_Witness ==
    /\ lastOp.op = "SetOutputLevel"
    /\ lastOp.level = LevelDebug
    /\ sinkWriterUsed
    /\ lastWriterArg = Out
    /\ logger.DEBUG.writer = Out
    /\ logger.INFO.writer = Out

\* The sink a per-sink SetWriter has just been made on is enabled before
\* and after the SetOutputLevel call of this step.
OverrideStaysEnabled ==
    /\ lastOp.op = "LogWriter.SetWriter"
    /\ lastOp'.op = "SetOutputLevel"
    /\ Severity[lastOp.sink] <= logger.outputLevel
    /\ Severity[lastOp.sink] <= logger'.outputLevel

\* Sink s is enabled before and after the SetOutputLevel call of this step.
StaysEnabled(s) ==
    /\ lastOp'.op = "SetOutputLevel"
    /\ Severity[s] <= logger.outputLevel
    /\ Severity[s] <= logger'.outputLevel

\* C8 as stated: a sink given D' by a per-sink SetWriter and enabled before
\* and after SetOutputLevel(T) still holds D' after the call.
C8_OverrideKept ==
    [][OverrideStaysEnabled => logger'[lastOp.sink].writer = lastOp.writer]_vars

\* C8 amended: a sink enabled before and after SetOutputLevel(T) holds the
\* Logger's recorded default destination after the call, whatever
\* destination a per-sink SetWriter had given it.
C8_OverrideReplaced ==
    [][\A s \in Sinks :
         StaysEnabled(s) => logger'[s].writer = logger.defaultLogWriter]_vars

\* C8 witness: a per-sink SetWriter followed by SetOutputLevel(DEBUG) leaves
\* every sink on os.Stdout.
C8_Witness ==
    /\ nCalls = 2
    /\ sinkWriterUsed
    /\ lastOp.op = "SetOutputLevel"
    /\ lastOp.level = LevelDebug
    /\ \A s \in Sinks : logger[s].writer = Stdout

\* C9 as stated: an emission renders its record's time with the Logger's
\* stored time format.
C9_TimeFormatUsed ==
    lastOp.op \in Emissions => lastData.Time = FormatNow(logger.timeFormat)

\* C10: right after construction the threshold is NOTICE, the default
\* destination os.Stdout, FATAL..NOTICE are on os.Stdout, INFO and DEBUG on
\* discard; and in every state every sink has a destination and a template.
C10_Ready ==
    /\ nCalls = 0 =>
          /\ lastOp.op \in {"NewLogger", "NewPlainLogger"}
          /\ logger.outputLevel = LevelNotice
          /\ logger.defaultLogWriter = Stdout
          /\ \A s \in {"FATAL", "CRITICAL", "ERROR", "WARN", "NOTICE"} :
                logger[s].writer = Stdout
          /\ \A s \in {"INFO", "DEBUG"} : logger[s].writer = Discard
    /\ \A s \in Sinks :
          /\ logger[s].writer # NilWriter
          /\ logger[s].template # NilTemplate

\* C10 witness: a Logger built by NewLogger, its DEBUG sink on discard with
\* the coloured template.
C10_Witness ==
    /\ lastOp.op = "NewLogger"
    /\ logger.DEBUG.writer = Discard
    /\ logger.DEBUG.template = TemplateDebug
    /\ logger.NOTICE.writer = Stdout

\* The recorded default destination is the argument of the most recent
\* Logger-wide SetWriter call, os.Stdout if none was made.
C11_Recorded == logger.defaultLogWriter = lastWriterArg

\* C11: in every state the recorded default destination equals the argument
\* of the most recent Logger-wide SetWriter (os.Stdout if none); SetWriter(D)
\* sets it to D and no other call changes it.
C11_DefaultIsLastSetWriterArg ==
    /\ []C11_Recorded
    /\ [][lastOp'.op # "SetWriter"
            => logger'.defaultLogWriter = logger.defaultLogWriter]_vars
    /\ [][lastOp'.op = "SetWriter"
            => logger'.defaultLogWriter = lastOp'.writer]_vars

\* C11 witness: after SetWriter(out), a per-sink SetWriter and a
\* SetOutputLevel, the recorded default destination is still out.
C11_Witness ==
    /\ lastOp.op = "SetOutputLevel"
    /\ sinkWriterUsed
    /\ lastWriterArg = Out
    /\ logger.defaultLogWriter = Out

\* An emission step reports nothing, leaves the Logger as it was, writes to
\* no destination but its sink's, and when both the template and the
\* destination work appends exactly the rendered text and one EOL.
C12_Emission ==
    lastOp'.op \in Emissions =>
        LET w  == logger[lastOp'.sink]
            ex == Execute(w.template, lastData')
        IN  /\ ~lastOp'.err
            /\ logger' = logger
            /\ \A d \in Buffers \ {w.writer} : output'[d] = output[d]
            /\ w.writer \notin Buffers => output' = output
            /\ (~ex.err /\ w.writer \in Buffers) =>
                  output'[w.writer] = output[w.writer] \o ex.chunks \o <<EOL>>

\* C12: Print/Printf never reports an error and never changes the
\* configuration, whether the template execution or the write fails or not;
\* on success exactly the rendered text and one line terminator are appended
\* to the sink's current destination and to no other.
C12_EmissionNeverDisrupts == [][C12_Emission]_vars

\* C12 witness: an emission through a template whose execution fails has
\* left the text before the failing field, and the line terminator, on out.
C12_Witness ==
    /\ lastOp.op \in Emissions
    /\ logger[lastOp.sink].template.tree = BogusFormat
    /\ logger[lastOp.sink].writer = Out
    /\ output[Out] = <<">>> ", EOL>>
    /\ Execute(logger[lastOp.sink].template, lastData).err

\* The fields foreachLogWriter visits, as a set.
Visited == {foreachLogWriter[i] : i \in DOMAIN foreachLogWriter}

\* The Logger has its eleven fields, seven of them sinks with pairwise
\* distinct levels, the sink behind accessor X having level X; and
\* foreachLogWriter visits each of the seven once and no other field.
C13_Sinks ==
    /\ DOMAIN logger =
          {"defaultLogWriter", "name", "outputLevel", "timeFormat"} \cup Sinks
    /\ Cardinality(Sinks) = 7
    /\ \A s \in Sinks : logger[s].level = Severity[s]
    /\ Cardinality({logger[s].level : s \in Sinks}) = 7
    /\ {logger[s].level : s \in Sinks} = Levels
    /\ Len(foreachLogWriter) = 7
    /\ Visited = Sinks

\* A Logger-wide bulk call reaches every sink: after it each sink holds the
\* value the call hands out, and the Logger's name is never changed.
C13_BulkVisitsAll ==
    /\ logger'.name = logger.name
    /\ lastOp'.op \in {"SetWriter", "SetOutputLevel"} =>
          \A s \in Sinks :
              logger'[s].writer \in {logger'.defaultLogWriter, Discard}
    /\ (lastOp'.op = "SetFormat" /\ ~lastOp'.err) =>
          /\ \A s \in Sinks : logger'[s].template.tree = lastOp'.arg
          /\ logger'.timeFormat = logger.timeFormat

\* C13: in every state the Logger owns exactly seven sinks with pairwise
\* distinct levels, accessor X leading to the sink of level X; no call
\* changes a sink's level, and the bulk calls visit all seven sinks and
\* nothing else.
C13_SevenSinks == []C13_Sinks /\ [][C13_BulkVisitsAll]_vars

\* C13 witness: after a per-sink SetWriter and a SetOutputLevel the DEBUG
\* and FATAL accessors still lead to the sinks of level DEBUG and FATAL.
C13_Witness ==
    /\ lastOp.op = "SetOutputLevel"
    /\ sinkWriterUsed
    /\ nCalls = MaxCalls
    /\ logger.DEBUG.level = LevelDebug
    /\ logger.FATAL.level = LevelFatal

\* OutputLevel() returns the argument of the most recent SetOutputLevel
\* call, NOTICE if none was made.
C14_Returned == OutputLevel(logger) = lastLevelArg

\* Only a SetOutputLevel step changes what OutputLevel() returns.
C14_Frame ==
    lastOp'.op # "SetOutputLevel" => OutputLevel(logger') = OutputLevel(logger)

\* C14: OutputLevel() returns the argument of the most recent SetOutputLevel
\* call, or NOTICE if there was none; no other call changes what it returns.
C14_OutputLevelIsLastArg == []C14_Returned /\ [][C14_Frame]_vars

\* C14 witness: SetOutputLevel(ERROR) was followed by a Logger-wide
\* SetWriter(out), and OutputLevel() returns ERROR.
C14_Witness ==
    /\ lastOp.op = "SetWriter"
    /\ lastOp.writer = Out
    /\ lastLevelArg = LevelError
    /\ OutputLevel(logger) = LevelError
    /\ logger.ERROR.writer = Out
    /\ logger.WARN.writer = Discard

\* Sink s is above the threshold of Logger l.
Disabled(l, s) == Severity[s] > l.outputLevel

\* An emission on a disabled sink that holds a destination keeping content
\* appends to that destination.
C15_DisabledEmits ==
    (lastOp'.op \in Emissions /\ Disabled(logger, lastOp'.sink)
        /\ logger[lastOp'.sink].writer \in Buffers)
    => Appended(logger[lastOp'.sink].writer)

\* A disabled sink keeps the destination it holds through every call but a
\* per-sink SetWriter, a Logger-wide SetWriter and SetOutputLevel.
C15_UntilWide ==
    lastOp'.op \notin {"LogWriter.SetWriter", "SetWriter", "SetOutputLevel"} =>
        \A s \in Sinks :
            Disabled(logger, s) =>
                /\ Disabled(logger', s)
                /\ logger'[s].writer = logger[s].writer

\* Right after a Logger-wide SetWriter or SetOutputLevel every disabled sink
\* holds the discard destination.
C15_AfterWide ==
    lastOp'.op \in {"SetWriter", "SetOutputLevel"} =>
        \A s \in Sinks : Disabled(logger', s) => logger'[s].writer = Discard

\* C15: emission does not consult the threshold: a disabled sink given D' by
\* a per-sink SetWriter appends its emissions to D' until the next
\* Logger-wide SetWriter or SetOutputLevel; only the states right after those
\* two calls have every disabled sink on discard.
C15_EmissionIgnoresThreshold ==
    [][C15_DisabledEmits /\ C15_UntilWide /\ C15_AfterWide]_vars

\* C15 witness: at threshold NOTICE, DEBUG was given out by DEBUG.SetWriter
\* and DEBUG.Print has written to out: a disabled sink not on discard.
C15_Witness ==
    /\ lastOp.op = "Print"
    /\ lastOp.sink = "DEBUG"
    /\ logger.outputLevel = LevelNotice
    /\ Disabled(logger, "DEBUG")
    /\ logger.DEBUG.writer = Out
    /\ logger.defaultLogWriter = Stdout
    /\ output[Out] # <<>>

\* From Logger l: SetOutputLevel(T) and SetWriter(D) are idempotent.
C16_Idempotent(l) ==
    /\ \A T \in Levels :
          LET once == LoggerSetOutputLevel(l, T)
          IN  LoggerSetOutputLevel(once, T) = once
    /\ \A D \in Writers :
          LET once == LoggerSetWriter(l, D)
          IN  LoggerSetWriter(once, D) = once

\* From Logger l: of two SetOutputLevel calls only the second shows.
C16_LastLevelWins(l) ==
    LET alone == [T \in Levels |-> LoggerSetOutputLevel(l, T)]
    IN  \A T1, T2 \in Levels :
            LoggerSetOutputLevel(alone[T1], T2) = alone[T2]

\* From Logger l: SetWriter(D) and SetOutputLevel(T) commute.
C16_Commute(l) ==
    LET levelled == [T \in Levels |-> LoggerSetOutputLevel(l, T)]
        routed   == [D \in Writers |-> LoggerSetWriter(l, D)]
    IN  \A T \in Levels, D \in Writers :
            LoggerSetOutputLevel(routed[D], T) = LoggerSetWriter(levelled[T], D)

\* C16: from every reachable Logger state SetOutputLevel(T) and SetWriter(D)
\* are idempotent, SetOutputLevel(T1);SetOutputLevel(T2) leaves the state
\* SetOutputLevel(T2) alone leaves, and SetWriter(D);SetOutputLevel(T) leaves
\* the state SetOutputLevel(T);SetWriter(D) leaves.
C16_WideCallsAlgebra ==
    /\ C16_Idempotent(logger)
    /\ C16_LastLevelWins(logger)
    /\ C16_Commute(logger)

\* C16 witness: a starting state with per-sink destinations in place (the
\* disabled DEBUG sink and the enabled NOTICE sink on out, the Logger on
\* os.Stdout) that no Logger-wide call has yet overwritten.
C16_Witness ==
    /\ logger.DEBUG.writer = Out
    /\ logger.NOTICE.writer = Out
    /\ logger.defaultLogWriter = Stdout
    /\ logger.outputLevel = LevelNotice
    /\ lastOp.op = "LogWriter.SetWriter"

\* Both racing SetWriter calls have returned.
C17_Final == race.started /\ race.pc = <<"done", "done">>

\* Two enabled sinks hold different destinations, or an enabled sink's
\* destination differs from the recorded default.
C17_Mixed ==
    \/ \E s1, s2 \in Sinks :
          /\ ~Disabled(logger, s1)
          /\ ~Disabled(logger, s2)
          /\ logger[s1].writer # logger[s2].writer
    \/ \E s \in Sinks :
          /\ ~Disabled(logger, s)
          /\ logger[s].writer # logger.defaultLogWriter

\* The Logger the two calls leave when one runs wholly before the other.
C17_Serial(first, second) ==
    LoggerSetWriter(LoggerSetWriter(race.start, first), second)

\* C17: when two unsynchronised SetWriter(D1) and SetWriter(D2) calls with
\* D1 # D2 have both returned, a final state in which two enabled sinks hold
\* different destinations, or an enabled sink's destination differs from the
\* recorded default, matches neither serial order; and every final state
\* has each disabled sink on the discard destination and everything else
\* untouched.  (That such a final state is reached is C17_Witness.)
C17_MixedMatchesNoSerialOrder ==
    C17_Final =>
        /\ C17_Mixed =>
              /\ logger # C17_Serial(race.d[1], race.d[2])
              /\ logger # C17_Serial(race.d[2], race.d[1])
        /\ \A s \in Sinks :
              /\ Disabled(logger, s) => logger[s].writer = Discard
              /\ logger[s].template = race.start[s].template
        /\ logger.outputLevel = race.start.outputLevel

\* C17 witness: both calls have returned, no write was torn, and the enabled
\* sinks hold different destinations or differ from the recorded default.
C17_Witness ==
    /\ C17_Final
    /\ C17_Mixed
    /\ logger.defaultLogWriter \in {race.d[1], race.d[2]}
    /\ \A s \in Sinks :
          ~Disabled(logger, s) => logger[s].writer \in {race.d[1], race.d[2]}

====
